---- MODULE Spec2Model ----
(***************************************************************************)
(* npm-check: the postinstall monitor of src/src/index.js.                 *)
(*                                                                         *)
(* One poller (the `while (true)` loop of run) reads the registry's        *)
(* _changes feed from a cursor `since`, turns every row into a job on an   *)
(* in-process queue of bounded concurrency, and every job fetches the      *)
(* package's packument and decides whether its latest version introduces   *)
(* a postinstall script.  JavaScript runs every callback to completion, so *)
(* one action is one callback: the handling of one feed response, the end  *)
(* of one timer, the settling of one packument fetch.                      *)
(*                                                                         *)
(* The queue-backed producer of src/src/lib/in-memory-queue.ts runs the    *)
(* same poll loop but handles the rows one after the other itself: it      *)
(* awaits the packument of a row, records its latest version and submits   *)
(* a job to packageQueue before it turns to the next row.                  *)
(*                                                                         *)
(* InMemoryQueue (the first class of src/src/lib/in-memory-queue.ts) is    *)
(* the in-process packageQueue of the application's main: add() pushes a   *)
(* job and emits "new-job", and the listener process() registered hands    *)
(* what the queue holds to the worker through a p-limit limiter.           *)
(***************************************************************************)
EXTENDS Integers, Sequences, FiniteSets, TLC

\* ------------------------------------------------------------------ bounds
\* Feed positions are 0..MaxSeq.
MaxSeq == 2
\* Rows of one change batch (CHANGES_LIMIT scaled down).
MaxRows == 2
\* Jobs the feed gives rise to in one run.
MaxJobs == 3
\* Consecutive failed poll iterations the feed produces in a row.
MaxErrStreak == 6
\* MAX_CONCURRENCY and MAX_CACHE_PACKAGES scaled down.
maxConcurrency == 2
maxCachePackages == 1
\* The concurrency InMemoryQueue is constructed with, scaled down.
concurrency == 2
\* Calls of InMemoryQueue.add and of InMemoryQueue.process in one run.
MaxAdds == 4
MaxListeners == 2

\* ------------------------------------------------------- program constants
InitialBackoffMs == 1000
BackoffCapMs == 30000
pollMs == 1500

Null == "null"
\* `since` before getInitialSince has answered (null in the source).
NoCursor == 0 - 1

Min(a, b) == IF a < b THEN a ELSE b

\* --------------------------------------------------------------- packuments
\* One package name more than the cache can hold.
PackageNames == <<"a", "b", "c", "d">>
Names == {PackageNames[i] : i \in 1..(maxCachePackages + 1)}
DesignIds == {"_design/app"}
JobNames == Names \cup DesignIds

\* Version keys, in the order the registry lists them.
VersionKeys == <<"1.0.0", "2.0.0">>
Versions == {VersionKeys[i] : i \in 1..Len(VersionKeys)}

Commands == {"", "curl evil.sh"}

\* A version manifest: `present` is whether doc.versions has the key at all.
NoDoc == [present |-> FALSE, postinstall |-> "", preinstall |-> ""]
VersionDocs == {NoDoc} \cup
    [present : {TRUE}, postinstall : Commands, preinstall : Commands]

\* doc.time restricted to its version keys: 0 is "no entry, or no valid
\* date", 1 and 2 are publish times.
TimeMaps == {t \in [Versions -> 0..2] :
                \A v \in Versions : t[v] = 2 => \E w \in Versions : t[w] = 1}

Packuments ==
    {d \in [hasVersions : BOOLEAN,
            versions : [Versions -> VersionDocs],
            distLatest : Versions \cup {Null},
            time : TimeMaps] :
        ~d.hasVersions => /\ \A v \in Versions : d.versions[v] = NoDoc}

hasPostinstall(versionDoc) ==
    /\ versionDoc.present
    /\ versionDoc.postinstall # ""

\* entries of pickLatestAndPreviousVersions: the version keys with a valid
\* time, sorted by descending time (Array.prototype.sort is stable).
RECURSIVE InsertDesc(_, _, _)
InsertDesc(s, v, t) ==
    IF s = <<>> THEN <<v>>
    ELSE IF t[Head(s)] >= t[v] THEN <<Head(s)>> \o InsertDesc(Tail(s), v, t)
    ELSE <<v>> \o s

RECURSIVE SortDesc(_, _, _)
SortDesc(keys, acc, t) ==
    IF keys = <<>> THEN acc
    ELSE SortDesc(Tail(keys), InsertDesc(acc, Head(keys), t), t)

TimeEntries(doc) ==
    SortDesc(SelectSeq(VersionKeys, LAMBDA k : doc.time[k] > 0), <<>>, doc.time)

pickLatestAndPreviousVersions(doc) ==
    IF ~doc.hasVersions THEN [latest |-> Null, previous |-> Null]
    ELSE
      LET latest == doc.distLatest
          tagged == latest # Null /\ doc.versions[latest].present
          entries == TimeEntries(doc)
      IN  IF Len(entries) > 0
          THEN LET effectiveLatest == IF tagged THEN latest ELSE entries[1]
                   others == SelectSeq(entries, LAMBDA e : e # effectiveLatest)
               IN  [latest |-> effectiveLatest,
                    previous |-> IF Len(others) > 0 THEN others[1] ELSE Null]
          ELSE [latest |-> IF tagged THEN latest ELSE Null, previous |-> Null]

\* ------------------------------------------------------------------- state
VARIABLES
    feed,            \* what this run's registry has in store (see Feeds)
    pc,              \* where run() is suspended
    exitCode,        \* process.exitCode (0 while it is not set)
    since,           \* the cursor
    reqSince,        \* the `since` parameter of the request last issued
    backoffMs,
    wait,            \* the delay() run() last awaited
    errStreak,       \* catch entries since httpGetJson last resolved
    lastResp,        \* the feed response last handled, in short
    queue,           \* tasks not yet started
    inFlight,
    running,         \* tasks started, their packument fetch outstanding
    nextJobId,
    lastSeenLatest,
    flagged,
    events,          \* FLAG lines written to stdout
    lastJob,         \* the task that settled last: how it ended, the latest it
                     \* selected, whether a task of the same name was running
    lastOk,          \* last_seq of the batch accepted last
    probe,           \* a task body run on its own (DetectSpec)
    batch,           \* producer: the batch whose rows are being handled
    todo,            \* producer: its rows from the one being handled on
    jobData,         \* producer: the job packageQueue.add is awaited for
    submitted,       \* producer: the jobs packageQueue holds
    added,           \* the jobs add() was called with, in order
    imq,             \* InMemoryQueue: this.queue, or NoQueue (no instance)
    listeners,       \* InMemoryQueue: "new-job" listeners registered
    limitActive,     \* p-limit: jobs whose worker call is running
    limitPending,    \* p-limit: jobs waiting for a slot
    handled,         \* the jobs handed to the worker, in order
    exited           \* process.exit() was called

vars == <<feed, pc, exitCode, since, reqSince, backoffMs, wait, errStreak, lastResp, queue,
          inFlight, running, nextJobId, lastSeenLatest, flagged, events, lastJob,
          lastOk, probe, batch, todo, jobData, submitted, added, imq, listeners,
          limitActive, limitPending, handled, exited>>

pollerVars == <<pc, exitCode, since, reqSince, backoffMs, wait, errStreak, lastResp,
               lastOk>>
jobVars == <<lastSeenLatest, flagged, events, lastJob>>
producerVars == <<batch, todo, jobData, submitted>>
imqVars == <<added, imq, listeners, limitActive, limitPending, handled>>

EmptyCache == [n \in JobNames |-> Null]
CacheSize(cache) == Cardinality({n \in JobNames : cache[n] # Null})

NoResp == [kind |-> "none", rows |-> 0, design |-> FALSE, last_seq |-> 0]
NoWait == [ms |-> 0, of |-> "none"]
NoJob == [name |-> Null, outcome |-> "none", introduced |-> FALSE, latest |-> Null,
          sibling |-> FALSE]
NoProbe == [name |-> Null, fetch |-> Null, outcome |-> "none", out |-> <<>>,
            seen |-> Null]
NoBatch == [kind |-> "none", results |-> <<>>, last_seq |-> 0]
NoJobData == [packageName |-> Null, version |-> Null, previousVersion |-> Null]
\* No InMemoryQueue in this program (index.js and the producer have none).
NoQueue == <<[id |-> 0, packageName |-> Null]>>

\* The registry of one run: how many failed requests in a row it may answer
\* with, and how many package rows its feed carries.  A run either meets a
\* long outage or a busy feed.
Feeds == {[errors |-> MaxErrStreak, jobs |-> 1], [errors |-> 1, jobs |-> MaxJobs]}

Start ==
    /\ pc = "init"
    /\ exitCode = 0
    /\ since = NoCursor
    /\ reqSince = NoCursor
    /\ backoffMs = InitialBackoffMs
    /\ wait = NoWait
    /\ errStreak = 0
    /\ lastResp = NoResp
    /\ queue = <<>>
    /\ inFlight = 0
    /\ running = {}
    /\ nextJobId = 1
    /\ lastSeenLatest = EmptyCache
    /\ flagged = {}
    /\ events = <<>>
    /\ lastJob = NoJob
    /\ lastOk = NoCursor
    /\ batch = NoBatch
    /\ todo = <<>>
    /\ jobData = NoJobData
    /\ submitted = <<>>
    /\ added = <<>>
    /\ imq = NoQueue
    /\ listeners = 0
    /\ limitActive = {}
    /\ limitPending = <<>>
    /\ handled = <<>>
    /\ exited = FALSE

Init ==
    /\ feed \in Feeds
    /\ probe = NoProbe
    /\ Start

\* ------------------------------------------------------------ the job queue
\* A task is the closure of one change row: its creation number and the
\* package name it closes over.
Task(id, name) == [id |-> id, name |-> name]

\* Mutant of runNext: the slot test off by one.
RECURSIVE runNextOffByOne(_, _, _)
runNextOffByOne(q, n, r) ==
    IF n <= maxConcurrency /\ Len(q) > 0
    THEN runNextOffByOne(Tail(q), n + 1, r \cup {Head(q)})
    ELSE [queue |-> q, inFlight |-> n, running |-> r]

\* Mutant of runNext: pop for shift, the task pushed last started first.
RECURSIVE runNextLifo(_, _, _)
runNextLifo(q, n, r) ==
    IF n < maxConcurrency /\ Len(q) > 0
    THEN runNextLifo(SubSeq(q, 1, Len(q) - 1), n + 1, r \cup {q[Len(q)]})
    ELSE [queue |-> q, inFlight |-> n, running |-> r]

\* while (inFlight < maxConcurrency && queue.length > 0): shift and start.
RECURSIVE runNext(_, _, _)
runNext(q, n, r) ==
    IF n < maxConcurrency /\ Len(q) > 0
    THEN runNext(Tail(q), n + 1, r \cup {Head(q)})
    ELSE [queue |-> q, inFlight |-> n, running |-> r]

\* Mutant of enqueue: the task pushed and runNext not called.
enqueuePushOnly(fn, st) ==
    [queue |-> Append(st.queue, fn), inFlight |-> st.inFlight,
     running |-> st.running, nextJobId |-> st.nextJobId + 1]

\* enqueue(fn): push, then runNext.
enqueue(fn, st) ==
    runNext(Append(st.queue, fn), st.inFlight, st.running)
        @@ [nextJobId |-> st.nextJobId + 1]

\* ------------------------------------------------------------------ the feed
\* A change row: `id` is a string, or something else (idIsString = FALSE).
Rows == [idIsString : {TRUE}, id : JobNames] \cup {[idIsString |-> FALSE, id |-> "42"]}

\* Mutant of startsWithDesign: design documents not recognised.
startsWithDesignNever(name) == FALSE

\* name.startsWith('_design/')
startsWithDesign(name) == name \in DesignIds

\* The rows of the loop that reach enqueue.
rowIsDispatched(row) ==
    /\ row.idIsString
    /\ ~startsWithDesign(row.id)

RECURSIVE dispatchRows(_, _)
dispatchRows(results, st) ==
    IF results = <<>> THEN st
    ELSE dispatchRows(
            Tail(results),
            IF rowIsDispatched(Head(results))
            THEN enqueue(Task(st.nextJobId, Head(results).id), st)
            ELSE st)

RowSeqs == UNION {[1..n -> Rows] : n \in 0..MaxRows}

\* What the registry may answer to _changes?since=s with a well-formed body:
\* a batch whose last_seq is past s when it has rows and at or past s when it
\* has none.  `room` is how many more tasks the run may still create.
jobRows(results) == SelectSeq(results, rowIsDispatched)

ChangeBatches(s, room) ==
    {b \in [kind : {"ok"}, results : RowSeqs, last_seq : s..MaxSeq] :
        /\ b.results # <<>> => b.last_seq > s
        /\ Len(jobRows(b.results)) <= room}

\* A body that is JSON but not {results: [...], last_seq}.
BadShapes(s) == [kind : {"shape"}, results : {<<>>}, last_seq : s..MaxSeq]

\* httpGetJson rejecting: request error or timeout, status other than 200,
\* body that is not JSON.
FetchErrors == [kind : {"transport", "http", "json"}, results : {<<>>}, last_seq : {0}]

\* What lastResp keeps of a response: its kind, how many rows it had, whether
\* one of them was a design document, and its last_seq.
Short(changes) ==
    [kind |-> changes.kind,
     rows |-> Len(changes.results),
     design |-> \E i \in 1..Len(changes.results) :
                    changes.results[i].id \in DesignIds,
     last_seq |-> changes.last_seq]

\* ---------------------------------------------------------------- the poller
UpdateSeqs == {0}

\* getInitialSince resolved: run() goes on to its first request.
InitOk(seq) ==
    /\ pc = "init"
    /\ since' = seq
    /\ reqSince' = seq
    /\ pc' = "fetching"
    /\ UNCHANGED <<backoffMs, wait, errStreak, lastResp, lastOk, queue, inFlight,
                   running, nextJobId>>
    /\ UNCHANGED <<feed, exited, exitCode, probe, jobVars, producerVars, imqVars>>

\* Mutant of InitFail: run().catch without process.exitCode = 1.
InitFailExitZero ==
    /\ pc = "init"
    /\ pc' = "stopped"
    /\ UNCHANGED <<since, reqSince, backoffMs, wait, errStreak, lastResp, lastOk,
                   queue, inFlight, running, nextJobId>>
    /\ UNCHANGED <<feed, exited, exitCode, probe, jobVars, producerVars, imqVars>>

\* getInitialSince threw: run() rejects and run().catch sets the exit code.
InitFail ==
    /\ pc = "init"
    /\ pc' = "stopped"
    /\ exitCode' = 1
    /\ UNCHANGED <<since, reqSince, backoffMs, wait, errStreak, lastResp, lastOk,
                   queue, inFlight, running, nextJobId>>
    /\ UNCHANGED <<feed, exited, probe, jobVars, producerVars, imqVars>>

\* Mutant of nextBackoff: the delay grown by a fixed step, not doubled.
nextBackoffLinear(ms) == Min(ms + InitialBackoffMs, BackoffCapMs)

\* backoffMs = Math.min(backoffMs * 2, 30000)
nextBackoff(ms) == Min(ms * 2, BackoffCapMs)

\* Mutant of cursorAfter: the assignment left out.
cursorAfterKept(s, changes) == s

\* Mutant of cursorAfter: the cursor moved only by a batch that has rows.
cursorAfterRowsOnly(s, changes) ==
    IF Len(changes.results) = 0 THEN s ELSE changes.last_seq

\* since = changes.last_seq
cursorAfter(s, changes) == changes.last_seq

\* Mutant of sleepAfter: the idle sleep left out.
sleepAfterNever(changes, w) == [pc |-> "fetching", wait |-> w]

\* if (changes.results.length === 0) await delay(pollMs): where run() is
\* suspended after the batch, and the delay it last awaited.
sleepAfter(changes, w) ==
    IF Len(changes.results) = 0
    THEN [pc |-> "idle", wait |-> [ms |-> pollMs, of |-> "pollMs"]]
    ELSE [pc |-> "fetching", wait |-> w]

\* The response passed the shape check: the rows are dispatched, the cursor
\* moves, and run() either sleeps pollMs (no rows) or issues the next request.
PollAccepted(changes) ==
    /\ pc = "fetching"
    /\ changes \in ChangeBatches(reqSince, feed.jobs + 1 - nextJobId)
    /\ LET st == dispatchRows(changes.results,
                     [queue |-> queue, inFlight |-> inFlight,
                      running |-> running, nextJobId |-> nextJobId])
       IN  /\ queue' = st.queue
           /\ inFlight' = st.inFlight
           /\ running' = st.running
           /\ nextJobId' = st.nextJobId
    /\ backoffMs' = InitialBackoffMs
    /\ errStreak' = 0
    /\ lastResp' = Short(changes)
    /\ lastOk' = changes.last_seq
    /\ since' = cursorAfter(since, changes)
    /\ LET after == sleepAfter(changes, wait)
       IN  /\ pc' = after.pc
           /\ wait' = after.wait
           /\ reqSince' = IF after.pc = "fetching" THEN since' ELSE reqSince
    /\ UNCHANGED <<feed, exited, exitCode, probe, jobVars, producerVars, imqVars>>

\* Mutant of PollBadShape: the cursor assigned before the shape check.
PollBadShapeAdvancing(changes) ==
    /\ pc = "fetching"
    /\ changes \in BadShapes(reqSince)
    /\ lastResp' = Short(changes)
    /\ backoffMs' = InitialBackoffMs
    /\ errStreak' = 1
    /\ wait' = [ms |-> InitialBackoffMs, of |-> "backoffMs"]
    /\ pc' = "backoff"
    /\ since' = changes.last_seq
    /\ UNCHANGED <<reqSince, lastOk, queue, inFlight, running, nextJobId>>
    /\ UNCHANGED <<feed, exited, exitCode, probe, jobVars, producerVars, imqVars>>

\* httpGetJson resolved, so backoffMs was reset, and the shape check threw:
\* the catch block sleeps backoffMs.
PollBadShape(changes) ==
    /\ pc = "fetching"
    /\ changes \in BadShapes(reqSince)
    /\ lastResp' = Short(changes)
    /\ backoffMs' = InitialBackoffMs
    /\ errStreak' = 1
    /\ wait' = [ms |-> InitialBackoffMs, of |-> "backoffMs"]
    /\ pc' = "backoff"
    /\ UNCHANGED <<since, reqSince, lastOk, queue, inFlight, running, nextJobId>>
    /\ UNCHANGED <<feed, exited, exitCode, probe, jobVars, producerVars, imqVars>>

\* httpGetJson rejected: the catch block sleeps backoffMs.
PollFetchError(err) ==
    /\ pc = "fetching"
    /\ err \in FetchErrors
    /\ errStreak < feed.errors
    /\ lastResp' = Short(err)
    /\ errStreak' = errStreak + 1
    /\ wait' = [ms |-> backoffMs, of |-> "backoffMs"]
    /\ pc' = "backoff"
    /\ UNCHANGED <<since, reqSince, backoffMs, lastOk, queue, inFlight, running,
                   nextJobId>>
    /\ UNCHANGED <<feed, exited, exitCode, probe, jobVars, producerVars, imqVars>>

\* Mutant of BackoffWake: the loop left once the delay has reached the cap.
BackoffWakeGivesUp ==
    /\ pc = "backoff"
    /\ backoffMs' = nextBackoff(backoffMs)
    /\ reqSince' = since
    /\ pc' = IF backoffMs >= BackoffCapMs THEN "stopped" ELSE "fetching"
    /\ UNCHANGED <<since, wait, errStreak, lastResp, lastOk, queue, inFlight,
                   running, nextJobId>>
    /\ UNCHANGED <<feed, exited, exitCode, probe, jobVars, producerVars, imqVars>>

\* delay(backoffMs) is over: the delay doubles and the loop starts again.
BackoffWake ==
    /\ pc = "backoff"
    /\ backoffMs' = nextBackoff(backoffMs)
    /\ reqSince' = since
    /\ pc' = "fetching"
    /\ UNCHANGED <<since, wait, errStreak, lastResp, lastOk, queue, inFlight,
                   running, nextJobId>>
    /\ UNCHANGED <<feed, exited, exitCode, probe, jobVars, producerVars, imqVars>>

\* delay(pollMs) is over: the loop starts again.
IdleWake ==
    /\ pc = "idle"
    /\ reqSince' = since
    /\ pc' = "fetching"
    /\ UNCHANGED <<since, backoffMs, wait, errStreak, lastResp, lastOk, queue,
                   inFlight, running, nextJobId>>
    /\ UNCHANGED <<feed, exited, exitCode, probe, jobVars, producerVars, imqVars>>

\* ------------------------------------------------------------------ the jobs
\* What fetchPackument may settle with: a rejection, or any packument.
\* The packuments the registry serves to the tasks: manifests without
\* preinstall (which the monitor never reads), `time` either absent or
\* listing exactly the published versions at distinct times.
JobPackuments ==
    {d \in Packuments :
        /\ \A v \in Versions : d.versions[v].preinstall = ""
        /\ ~d.hasVersions => d.distLatest = Null
        /\ \/ \A v \in Versions : d.time[v] = 0
           \/ /\ \A v \in Versions : d.time[v] > 0 <=> d.versions[v].present
              /\ \A v, w \in Versions : d.time[v] > 0 /\ v # w => d.time[v] # d.time[w]}

NoPackument == CHOOSE d \in Packuments : ~d.hasVersions /\ d.distLatest = Null
                                        /\ \A v \in Versions : d.time[v] = 0

FetchResults ==
    {[ok |-> FALSE, doc |-> NoPackument]} \cup [ok : {TRUE}, doc : JobPackuments]

\* `${name}@${latest}`
Key(name, latest) == <<name, latest>>

Flag(name, latest, previous, latestDoc) ==
    [name |-> name, version |-> latest, previous |-> previous,
     postinstall |-> latestDoc.postinstall]

\* Mutant of seenLatest: the cache gate left out.
seenLatestNever(cache, name, latest) == FALSE

\* last === latest
seenLatest(cache, name, latest) == cache[name] = latest

\* Mutant of isFlagged: the flagged gate left out.
isFlaggedNever(flg, key) == FALSE

\* flagged.has(key)
isFlagged(flg, key) == key \in flg

\* Mutant of prevHasScript: the previous version never looked at.
prevHasScriptIgnored(prevDoc) == FALSE

\* prevDoc ? hasPostinstall(prevDoc) : false
prevHasScript(prevDoc) ==
    IF prevDoc.present THEN hasPostinstall(prevDoc) ELSE FALSE

\* Mutant of cacheSet: on overflow one other entry evicted, not all.
cacheSetEvictOne(cache, name, latest) ==
    LET set == [cache EXCEPT ![name] = latest]
    IN  IF CacheSize(set) > maxCachePackages
        THEN [set EXCEPT ![CHOOSE n \in JobNames : n # name /\ set[n] # Null] = Null]
        ELSE set

\* lastSeenLatest.set(name, latest), then the overflow reset.
cacheSet(cache, name, latest) ==
    LET set == [cache EXCEPT ![name] = latest]
    IN  IF CacheSize(set) > maxCachePackages THEN EmptyCache ELSE set

\* The task body from the settling of its fetch to its return: the outcome,
\* the two collections as it leaves them, and the lines it wrote.
jobBody(name, fetch, cache, flg) ==
    LET end(outcome, c, f, out) ==
            [outcome |-> outcome, lastSeenLatest |-> c, flagged |-> f, out |-> out]
    IN
    IF ~fetch.ok THEN end("fetch-failed", cache, flg, <<>>)
    ELSE
      LET packument == fetch.doc
          pair == pickLatestAndPreviousVersions(packument)
          latest == pair.latest
          previous == pair.previous
      IN
      IF latest = Null THEN end("no-latest", cache, flg, <<>>)
      ELSE IF seenLatest(cache, name, latest) THEN end("unchanged", cache, flg, <<>>)
      ELSE
        LET cache2 == cacheSet(cache, name, latest)
            latestDoc == packument.versions[latest]
            prevDoc == IF previous # Null THEN packument.versions[previous] ELSE NoDoc
            latestHas == hasPostinstall(latestDoc)
            prevHas == prevHasScript(prevDoc)
            key == Key(name, latest)
        IN
        IF ~latestHas THEN end("no-script", cache2, flg, <<>>)
        ELSE IF prevHas THEN end("prev-has-script", cache2, flg, <<>>)
        ELSE IF isFlagged(flg, key) THEN end("already-flagged", cache2, flg, <<>>)
        ELSE end("flagged", cache2, flg \cup {key},
                 <<Flag(name, latest, previous, latestDoc)>>)

\* The detector's verdict on a packument, whatever the dedup gates do.
introduced(packument) ==
    LET pair == pickLatestAndPreviousVersions(packument)
    IN  /\ pair.latest # Null
        /\ hasPostinstall(packument.versions[pair.latest])
        /\ ~(/\ pair.previous # Null
             /\ hasPostinstall(packument.versions[pair.previous]))

\* What JobSettle records of the task in lastJob.
settled(fn, fetch, outcome, others) ==
    [name |-> fn.name, outcome |-> outcome,
     introduced |-> fetch.ok /\ introduced(fetch.doc),
     latest |-> IF fetch.ok THEN pickLatestAndPreviousVersions(fetch.doc).latest
                ELSE Null,
     sibling |-> \E g \in others : g.name = fn.name]

\* Mutant of JobSettle: the slot given back by .then, so that a task whose
\* fetch failed keeps it.
JobSettleNoFinally(fn, fetch) ==
    /\ fn \in running
    /\ fetch \in FetchResults
    /\ LET r == jobBody(fn.name, fetch, lastSeenLatest, flagged)
           st == IF fetch.ok
                 THEN runNext(queue, inFlight - 1, running \ {fn})
                 ELSE [queue |-> queue, inFlight |-> inFlight, running |-> running \ {fn}]
       IN  /\ lastSeenLatest' = r.lastSeenLatest
           /\ flagged' = r.flagged
           /\ events' = events \o r.out
           /\ lastJob' = settled(fn, fetch, r.outcome, running \ {fn})
           /\ queue' = st.queue
           /\ inFlight' = st.inFlight
           /\ running' = st.running
    /\ UNCHANGED nextJobId
    /\ UNCHANGED <<feed, exited, probe, pollerVars, producerVars, imqVars>>

\* Mutant of JobSettle: the overflow reset clears flagged as well.
JobSettleClearsFlagged(fn, fetch) ==
    /\ fn \in running
    /\ fetch \in FetchResults
    /\ LET r == jobBody(fn.name, fetch, lastSeenLatest, flagged)
           st == runNext(queue, inFlight - 1, running \ {fn})
           reset == r.lastSeenLatest = EmptyCache /\ r.outcome \notin
                        {"fetch-failed", "no-latest", "unchanged"}
       IN  /\ lastSeenLatest' = r.lastSeenLatest
           /\ flagged' = IF reset THEN r.flagged \ flagged ELSE r.flagged
           /\ events' = events \o r.out
           /\ lastJob' = settled(fn, fetch, r.outcome, running \ {fn})
           /\ queue' = st.queue
           /\ inFlight' = st.inFlight
           /\ running' = st.running
    /\ UNCHANGED nextJobId
    /\ UNCHANGED <<feed, exited, probe, pollerVars, producerVars, imqVars>>

\* The packument fetch of a started task settles: the rest of the task body
\* runs, then .finally releases the slot and starts what the queue holds.
JobSettle(fn, fetch) ==
    /\ fn \in running
    /\ fetch \in FetchResults
    /\ LET r == jobBody(fn.name, fetch, lastSeenLatest, flagged)
           st == runNext(queue, inFlight - 1, running \ {fn})
       IN  /\ lastSeenLatest' = r.lastSeenLatest
           /\ flagged' = r.flagged
           /\ events' = events \o r.out
           /\ lastJob' = settled(fn, fetch, r.outcome, running \ {fn})
           /\ queue' = st.queue
           /\ inFlight' = st.inFlight
           /\ running' = st.running
    /\ UNCHANGED nextJobId
    /\ UNCHANGED <<feed, exited, probe, pollerVars, producerVars, imqVars>>

\* One task body on a monitor that has seen nothing yet; `seen` is what it
\* leaves in lastSeenLatest for the name, the latest it selected.
Detect ==
    /\ probe.outcome = "pending"
    /\ LET r == jobBody(probe.name, probe.fetch, EmptyCache, {})
       IN  probe' = [probe EXCEPT !.outcome = r.outcome, !.out = r.out,
                                  !.seen = r.lastSeenLatest[probe.name]]
    /\ UNCHANGED <<feed, exited, pollerVars, jobVars, producerVars, imqVars, queue, inFlight,
                   running, nextJobId>>

Next ==
    \/ \E seq \in UpdateSeqs : InitOk(seq)
    \/ InitFail
    \/ \E changes \in ChangeBatches(reqSince, MaxJobs) : PollAccepted(changes)
    \/ \E changes \in BadShapes(reqSince) : PollBadShape(changes)
    \/ \E err \in FetchErrors : PollFetchError(err)
    \/ BackoffWake
    \/ IdleWake
    \/ \E fn \in running, fetch \in FetchResults : JobSettle(fn, fetch)

Spec == Init /\ [][Next]_vars

\* The detection alone: any packument the registry can serve, handed to the
\* body of one task.
DetectInit ==
    /\ feed = [errors |-> 0, jobs |-> 0]
    /\ probe \in [name : {"a"}, fetch : [ok : {TRUE}, doc : Packuments],
                   outcome : {"pending"}, out : {<<>>}, seen : {Null}]
    /\ Start

DetectNext == Detect

DetectSpec == DetectInit /\ [][DetectNext]_vars

\* ------------------------------------------------------------- the producer
\* let latest = packument["dist-tags"]?.latest || null, and without it the
\* highest version key by semver (VersionKeys is in semver order).
producerLatest(packument) ==
    IF packument.distLatest # Null THEN packument.distLatest
    ELSE IF packument.hasVersions
    THEN LET valid == SelectSeq(VersionKeys, LAMBDA k : packument.versions[k].present)
         IN  IF Len(valid) > 0 THEN valid[Len(valid)] ELSE Null
    ELSE Null

\* `${name}@${latest}`
JobId(job) == Key(job.packageName, job.version)

\* packageQueue.add(name, data, {jobId}) resolving: the queue keeps one job
\* per jobId.
addJob(jobs, job) ==
    IF \E i \in 1..Len(jobs) : JobId(jobs[i]) = JobId(job)
    THEN jobs
    ELSE Append(jobs, job)

RECURSIVE skipRows(_)
skipRows(rows) ==
    IF rows = <<>> THEN <<>>
    ELSE IF rowIsDispatched(Head(rows)) THEN rows
    ELSE skipRows(Tail(rows))

\* The row loop from `rows` on, up to its next await: the fetch of the first
\* row that is not skipped or, past the last row, the cursor assignment and
\* what follows it.
rowLoop(rows, changes, s, rs, w) ==
    LET rest == skipRows(rows)
    IN  IF rest # <<>>
        THEN [pc |-> "packument", todo |-> rest, batch |-> changes,
              since |-> s, reqSince |-> rs, wait |-> w]
        ELSE LET after == sleepAfter(changes, w)
                 s2 == cursorAfter(s, changes)
             IN  [pc |-> after.pc, todo |-> <<>>, batch |-> NoBatch,
                  since |-> s2,
                  reqSince |-> IF after.pc = "fetching" THEN s2 ELSE rs,
                  wait |-> after.wait]

\* The producer's response passed the shape check: the row loop starts.
ProducerAccepted(changes) ==
    /\ pc = "fetching"
    /\ changes \in ChangeBatches(reqSince, feed.jobs + 1 - nextJobId)
    /\ backoffMs' = InitialBackoffMs
    /\ errStreak' = 0
    /\ lastResp' = Short(changes)
    /\ lastOk' = changes.last_seq
    /\ nextJobId' = nextJobId + Len(jobRows(changes.results))
    /\ LET r == rowLoop(changes.results, changes, since, reqSince, wait)
       IN  /\ pc' = r.pc
           /\ todo' = r.todo
           /\ batch' = r.batch
           /\ since' = r.since
           /\ reqSince' = r.reqSince
           /\ wait' = r.wait
    /\ UNCHANGED <<feed, exited, exitCode, probe, jobVars, imqVars, jobData, submitted,
                   queue, inFlight, running>>

\* fetchPackument of the row in hand settled: the row is dropped (failed
\* fetch, no latest, latest seen before) or its job goes to packageQueue.add.
ProducerPackument(fetch) ==
    /\ pc = "packument"
    /\ fetch \in FetchResults
    /\ LET name == Head(todo).id
           latest == IF fetch.ok THEN producerLatest(fetch.doc) ELSE Null
           last == lastSeenLatest[name]
           outcome == IF ~fetch.ok THEN "fetch-failed"
                      ELSE IF latest = Null THEN "no-latest"
                      ELSE IF seenLatest(lastSeenLatest, name, latest) THEN "unchanged"
                      ELSE "adding"
       IN  /\ lastJob' = [name |-> name, outcome |-> outcome, introduced |-> FALSE,
                          latest |-> latest, sibling |-> FALSE]
           /\ IF outcome = "adding"
              THEN /\ lastSeenLatest' = cacheSet(lastSeenLatest, name, latest)
                   /\ jobData' = [packageName |-> name, version |-> latest,
                                  previousVersion |-> last]
                   /\ pc' = "adding"
                   /\ UNCHANGED <<todo, batch, since, reqSince, wait>>
              ELSE LET r == rowLoop(Tail(todo), batch, since, reqSince, wait)
                   IN  /\ pc' = r.pc
                       /\ todo' = r.todo
                       /\ batch' = r.batch
                       /\ since' = r.since
                       /\ reqSince' = r.reqSince
                       /\ wait' = r.wait
                       /\ UNCHANGED <<lastSeenLatest, jobData>>
    /\ UNCHANGED <<feed, exited, exitCode, probe, backoffMs, errStreak, lastResp, lastOk,
                   flagged, events,
                   submitted, queue, inFlight, running, nextJobId, imqVars>>

\* packageQueue.add settled: resolved (the job is queued) or rejected (the
\* row's catch logs it); the loop goes on with the next row.
ProducerAdded(ok) ==
    /\ pc = "adding"
    /\ submitted' = IF ok THEN addJob(submitted, jobData) ELSE submitted
    /\ lastJob' = [lastJob EXCEPT !.outcome = IF ok THEN "queued" ELSE "add-failed"]
    /\ jobData' = NoJobData
    /\ LET r == rowLoop(Tail(todo), batch, since, reqSince, wait)
       IN  /\ pc' = r.pc
           /\ todo' = r.todo
           /\ batch' = r.batch
           /\ since' = r.since
           /\ reqSince' = r.reqSince
           /\ wait' = r.wait
    /\ UNCHANGED <<feed, exited, exitCode, probe, backoffMs, errStreak, lastResp, lastOk,
                   lastSeenLatest,
                   flagged, events, queue, inFlight, running, nextJobId, imqVars>>

ProducerNext ==
    \/ \E seq \in UpdateSeqs : InitOk(seq)
    \/ InitFail
    \/ \E changes \in ChangeBatches(reqSince, MaxJobs) : ProducerAccepted(changes)
    \/ \E changes \in BadShapes(reqSince) : PollBadShape(changes)
    \/ \E err \in FetchErrors : PollFetchError(err)
    \/ BackoffWake
    \/ IdleWake
    \/ \E fetch \in FetchResults : ProducerPackument(fetch)
    \/ \E ok \in BOOLEAN : ProducerAdded(ok)

ProducerSpec == Init /\ [][ProducerNext]_vars

\* ------------------------------------------------------------ InMemoryQueue
\* The state of a limiter: the calls running and the calls waiting, and the
\* jobs the worker has been invoked with.
Limiter(active, pending, hnd) == [active |-> active, pending |-> pending, handled |-> hnd]

\* Mutant of limitCall: the worker called without the limiter.
limitCallDirect(job, lim) ==
    Limiter(lim.active \cup {job}, lim.pending, Append(lim.handled, job))

\* this.limit(() => worker(job)): the worker is invoked at once while fewer
\* than `concurrency` calls are running, else the call waits in the limiter.
limitCall(job, lim) ==
    IF Cardinality(lim.active) < concurrency
    THEN Limiter(lim.active \cup {job}, lim.pending, Append(lim.handled, job))
    ELSE Limiter(lim.active, Append(lim.pending, job), lim.handled)

\* Mutant of drain: `if` for `while`, one job taken per "new-job" event.
drainOne(q, lim) ==
    IF q = <<>> THEN lim
    ELSE limitCall(Head(q), lim)

\* The "new-job" listener: while (this.queue.length > 0) shift and limit.
RECURSIVE drain(_, _)
drain(q, lim) ==
    IF q = <<>> THEN lim
    ELSE drain(Tail(q), limitCall(Head(q), lim))

\* A call of the limiter settled: its slot goes to the call waiting longest.
limitNext(job, lim) ==
    LET active == lim.active \ {job}
    IN  IF lim.pending # <<>>
        THEN Limiter(active \cup {Head(lim.pending)}, Tail(lim.pending),
                     Append(lim.handled, Head(lim.pending)))
        ELSE Limiter(active, lim.pending, lim.handled)

\* add(job): push, then emit("new-job") runs every listener registered; the
\* first one leaves the queue empty.
ImqAdd(name) ==
    /\ imq # NoQueue
    /\ ~exited
    /\ Len(added) < MaxAdds
    /\ LET job == [id |-> Len(added) + 1, packageName |-> name]
           pushed == Append(imq, job)
           lim == Limiter(limitActive, limitPending, handled)
           after == IF listeners > 0 THEN drain(pushed, lim) ELSE lim
       IN  /\ added' = Append(added, job)
           /\ imq' = IF listeners > 0 THEN <<>> ELSE pushed
           /\ limitActive' = after.active
           /\ limitPending' = after.pending
           /\ handled' = after.handled
    /\ UNCHANGED <<listeners, feed, exited, probe, pollerVars, jobVars, producerVars, queue,
                   inFlight, running, nextJobId>>

\* process(worker): one more "new-job" listener; what the queue holds stays.
ImqProcess ==
    /\ imq # NoQueue
    /\ ~exited
    /\ listeners < MaxListeners
    /\ listeners' = listeners + 1
    /\ UNCHANGED <<added, imq, limitActive, limitPending, handled, feed, exited, probe,
                   pollerVars, jobVars, producerVars, queue, inFlight, running,
                   nextJobId>>

\* worker(job) settled, resolved or rejected (the rejection is logged by the
\* .catch of process): the limiter starts its next call.
ImqWorkerSettle(job, ok) ==
    /\ job \in limitActive
    /\ ~exited
    /\ LET after == limitNext(job, Limiter(limitActive, limitPending, handled))
       IN  /\ limitActive' = after.active
           /\ limitPending' = after.pending
           /\ handled' = after.handled
    /\ UNCHANGED <<added, imq, listeners, feed, exited, probe, pollerVars, jobVars,
                   producerVars, queue, inFlight, running, nextJobId>>

\* The application's main: the module's packageQueue exists, nothing added,
\* no worker registered; neither index.js nor the producer of this file runs.
QueueInit ==
    /\ feed = [errors |-> 0, jobs |-> 0]
    /\ probe = NoProbe
    /\ pc = "absent"
    /\ exitCode = 0
    /\ since = NoCursor
    /\ reqSince = NoCursor
    /\ backoffMs = InitialBackoffMs
    /\ wait = NoWait
    /\ errStreak = 0
    /\ lastResp = NoResp
    /\ lastOk = NoCursor
    /\ queue = <<>>
    /\ inFlight = 0
    /\ running = {}
    /\ nextJobId = 1
    /\ lastSeenLatest = EmptyCache
    /\ flagged = {}
    /\ events = <<>>
    /\ lastJob = NoJob
    /\ batch = NoBatch
    /\ todo = <<>>
    /\ jobData = NoJobData
    /\ submitted = <<>>
    /\ added = <<>>
    /\ imq = <<>>
    /\ listeners = 0
    /\ limitActive = {}
    /\ limitPending = <<>>
    /\ handled = <<>>
    /\ exited = FALSE

QueueNext ==
    \/ \E name \in Names : ImqAdd(name)
    \/ ImqProcess
    \/ \E job \in limitActive, ok \in BOOLEAN : ImqWorkerSettle(job, ok)

QueueSpec == QueueInit /\ [][QueueNext]_vars

\* Either program: the monitor of index.js, or the application's main with
\* its InMemoryQueue.
PoolsInit == Init \/ QueueInit

PoolsNext == Next \/ QueueNext

PoolsSpec == PoolsInit /\ [][PoolsNext]_vars

\* The monitor seen as a pool of tasks: what runNext and enqueue do does not
\* depend on what a task's fetch returned, so a fetch here either fails or
\* returns a packument without versions.
PoolFetches == {f \in FetchResults : f.doc = NoPackument}

\* Its feed carries enough rows for two tasks to wait behind a full pool.
PoolJobs == maxConcurrency + 2

PoolInit ==
    /\ feed = [errors |-> 1, jobs |-> PoolJobs]
    /\ probe = NoProbe
    /\ Start

PoolSettle == \E fn \in running, fetch \in PoolFetches : JobSettle(fn, fetch)

PoolNext ==
    \/ \E seq \in UpdateSeqs : InitOk(seq)
    \/ InitFail
    \/ \E changes \in ChangeBatches(reqSince, PoolJobs) : PollAccepted(changes)
    \/ \E changes \in BadShapes(reqSince) : PollBadShape(changes)
    \/ \E err \in FetchErrors : PollFetchError(err)
    \/ BackoffWake
    \/ IdleWake
    \/ PoolSettle

\* Every packument fetch settles: httpGetJson resolves, rejects or times out
\* after 60 s, and the task's .finally runs.
PoolLiveSpec == PoolInit /\ [][PoolNext]_vars /\ WF_vars(PoolSettle)

\* The timer main sets when GITHUB_ACTIONS is 'true' fires after 300000 ms:
\* process.exit(0), whatever the queue and the limiter hold.
ActionsTimeout ==
    /\ imq # NoQueue
    /\ ~exited
    /\ exited' = TRUE
    /\ UNCHANGED <<feed, probe, pollerVars, jobVars, producerVars, imqVars, queue,
                   inFlight, running, nextJobId>>

\* The application's main run in a GitHub Action.
StopNext == QueueNext \/ ActionsTimeout

StopSpec == QueueInit /\ [][StopNext]_vars

\* The monitor with its timers firing: a delay() awaited comes to its end.
LiveSpec == Spec /\ WF_vars(BackoffWake) /\ WF_vars(IdleWake)

\* ================================================================== claims

Tasks == {queue[i] : i \in 1..Len(queue)} \cup running

\* The producer is between the rows of an accepted batch.
InRowLoop == pc \in {"packument", "adding"}

EventKey(e) == Key(e.name, e.version)

\* C1: a DetectionKey (name@latest) is written as a FLAG line at most once,
\* whatever the batches and however the tasks interleave.
C1_FlaggedAtMostOnce ==
    \A i, j \in 1..Len(events) :
        i # j => EventKey(events[i]) # EventKey(events[j])

\* C1 witness: a task evaluated a key that had been flagged before and was
\* stopped at the flagged gate.
C1_Witness ==
    /\ lastJob.outcome = "already-flagged"
    /\ Len(events) >= 1

Tagged(doc) ==
    /\ doc.hasVersions
    /\ doc.distLatest # Null
    /\ doc.versions[doc.distLatest].present

TaggedLatestDoc(doc) == doc.versions[doc.distLatest]

TaggedPreviousDoc(doc) ==
    LET others == {v \in Versions : v # doc.distLatest /\ doc.versions[v].present}
    IN  IF others = {} THEN NoDoc ELSE doc.versions[CHOOSE v \in others : TRUE]

HasInstallScript(versionDoc) ==
    /\ versionDoc.present
    /\ versionDoc.postinstall # "" \/ versionDoc.preinstall # ""

\* C3 as claimed: whenever the latest version has a non-empty postinstall or
\* preinstall script and the previous version has none or does not exist, the
\* task reaches the FLAG step (the dedup gates being open).
C3_AsClaimed ==
    (/\ probe.outcome \notin {"none", "pending"}
     /\ Tagged(probe.fetch.doc)
     /\ HasInstallScript(TaggedLatestDoc(probe.fetch.doc))
     /\ ~HasInstallScript(TaggedPreviousDoc(probe.fetch.doc)))
        => probe.outcome = "flagged"

\* C4 as claimed: whenever latest and previous both have the script, or
\* neither has it, nothing is flagged, time entries or not.
C4_AsClaimed ==
    (/\ probe.outcome \notin {"none", "pending"}
     /\ Tagged(probe.fetch.doc)
     /\ hasPostinstall(TaggedLatestDoc(probe.fetch.doc))
            = hasPostinstall(TaggedPreviousDoc(probe.fetch.doc)))
        => /\ probe.outcome # "flagged"
           /\ probe.out = <<>>

\* C5: after every accepted batch the cursor is that batch's last_seq, rows
\* or no rows, failed attempts in between or not (in the producer: once the
\* rows of the batch are handled).
C5_CursorLaw ==
    (lastOk # NoCursor /\ ~InRowLoop) => since = lastOk

\* C5 witness: a batch without rows moved the cursor.
C5_Witness ==
    /\ lastResp.kind = "ok"
    /\ lastResp.rows = 0
    /\ lastResp.last_seq = MaxSeq
    /\ since = MaxSeq
    /\ pc = "idle"

\* C6: a failed iteration leaves the cursor where it was and creates no
\* task, and the attempt after the backoff carries the same cursor.
C6_ErrorKeepsCursor ==
    [][/\ (pc = "fetching" /\ pc' = "backoff") =>
            /\ since' = since
            /\ nextJobId' = nextJobId
            /\ queue' = queue
            /\ running' = running
            /\ inFlight' = inFlight
            /\ producerVars' = producerVars
       /\ (pc = "backoff" /\ pc' # "backoff") =>
            /\ pc' = "fetching"
            /\ reqSince' = reqSince
            /\ reqSince' = since
      ]_vars

\* C6 witness: the request after a failed one is out, past the first batch.
C6_Witness ==
    /\ pc = "fetching"
    /\ errStreak >= 1
    /\ lastResp.kind \in {"transport", "http", "json", "shape"}
    /\ reqSince >= 1

Pow2(k) == IF k <= 0 THEN 1 ELSE 2 ^ k

\* C7 as claimed: after K failed requests in a row the wait before the next
\* attempt is min(initial * 2^K, cap).
C7_AsClaimed ==
    (pc = "backoff" /\ lastResp.kind \in {"transport", "http", "json"})
        => wait.ms = Min(InitialBackoffMs * Pow2(errStreak), BackoffCapMs)

\* C7, amended: after K >= 1 failed iterations in a row, counted from the
\* last response httpGetJson delivered, the wait is
\* min(initial * 2^(K-1), cap); an accepted batch puts the delay back to
\* initial.
C7_Backoff ==
    /\ pc = "backoff" =>
            /\ errStreak >= 1
            /\ wait = [ms |-> Min(InitialBackoffMs * Pow2(errStreak - 1), BackoffCapMs),
                       of |-> "backoffMs"]
    /\ pc \in {"fetching", "idle"} =>
            backoffMs = Min(InitialBackoffMs * Pow2(errStreak), BackoffCapMs)
    /\ (pc \in {"fetching", "idle"} /\ errStreak = 0) => backoffMs = InitialBackoffMs

\* C7 witness: the wait has reached the cap.
C7_Witness ==
    /\ pc = "backoff"
    /\ errStreak >= 6
    /\ wait.ms = BackoffCapMs

\* C8: lastSeenLatest never holds more than maxCachePackages entries, and
\* the insert that would exceed it leaves it empty.
C8_CacheBound ==
    [][/\ CacheSize(lastSeenLatest') <= maxCachePackages
       /\ lastSeenLatest' # lastSeenLatest =>
            \E n \in JobNames, v \in Versions :
                LET set == [lastSeenLatest EXCEPT ![n] = v]
                IN  /\ lastJob'.name = n
                    /\ lastSeenLatest' =
                         IF CacheSize(set) > maxCachePackages THEN EmptyCache ELSE set
      ]_vars

\* C8 witness: the task that settled last recorded its version and left the
\* cache empty.
C8_Witness ==
    /\ lastJob.outcome \in {"no-script", "prev-has-script", "already-flagged", "flagged"}
    /\ lastSeenLatest = EmptyCache

\* C9: a row whose id starts with _design/ or is no string never becomes a
\* task (no fetch, no cache entry, no FLAG line), and the cursor still moves
\* past its batch.
C9_DesignRowsSkipped ==
    /\ \A fn \in Tasks : fn.name \in Names
    /\ \A d \in DesignIds : lastSeenLatest[d] = Null
    /\ \A i \in 1..Len(events) : events[i].name \in Names
    /\ lastJob.name \in Names \cup {Null}
    /\ InRowLoop => Head(todo).id \in Names
    /\ jobData.packageName \in Names \cup {Null}
    /\ \A i \in 1..Len(submitted) : submitted[i].packageName \in Names
    /\ (lastResp.kind = "ok" /\ lastResp.design /\ ~InRowLoop)
            => since = lastResp.last_seq

\* C9 witness: a batch of nothing but a design document was accepted and
\* the cursor moved.
C9_Witness ==
    /\ lastResp.kind = "ok"
    /\ lastResp.design
    /\ lastResp.rows = 1
    /\ since = lastResp.last_seq
    /\ since >= 1
    /\ nextJobId = 1

\* C10: a batch without rows moves the cursor to its last_seq, creates no
\* task, and puts run() to sleep for pollMs, not backoffMs, before the next
\* request.
C10_EmptyBatchIdles ==
    [][/\ (/\ pc = "fetching"
           /\ <<pc, since, lastResp, lastOk, wait>>' # <<pc, since, lastResp, lastOk, wait>>
           /\ lastResp'.kind = "ok"
           /\ lastResp'.rows = 0) =>
            /\ since' = lastResp'.last_seq
            /\ nextJobId' = nextJobId
            /\ queue' = queue
            /\ running' = running
            /\ producerVars' = producerVars
            /\ pc' = "idle"
            /\ wait' = [ms |-> pollMs, of |-> "pollMs"]
       /\ (pc = "idle" /\ pc' # "idle") =>
            /\ pc' = "fetching"
            /\ reqSince' = since
            /\ backoffMs' = backoffMs
      ]_vars

\* C10 witness: run() sleeps pollMs after a batch without rows that moved
\* the cursor.
C10_Witness ==
    /\ pc = "idle"
    /\ wait = [ms |-> pollMs, of |-> "pollMs"]
    /\ lastResp.rows = 0
    /\ since = lastResp.last_seq
    /\ since >= 1

\* C11: the tasks started and not finished never number more than
\* maxConcurrency, inFlight counts exactly them, and a task waits only while
\* every slot is taken; the InMemoryQueue likewise never has more than
\* `concurrency` worker calls running.
C11_BoundedConcurrency ==
    /\ inFlight \in 0..maxConcurrency
    /\ inFlight = Cardinality(running)
    /\ queue # <<>> => inFlight = maxConcurrency
    /\ Cardinality(limitActive) \in 0..concurrency
    /\ limitPending # <<>> => Cardinality(limitActive) = concurrency

\* C11 witness: every slot is taken and a task waits.
C11_Witness ==
    /\ inFlight = maxConcurrency
    /\ Cardinality(running) = maxConcurrency
    /\ Len(queue) >= 1

\* The version the claims call previous: the published version other than
\* the tagged latest, if there is one.
TaggedPrevious(doc) ==
    LET others == {v \in Versions : v # doc.distLatest /\ doc.versions[v].present}
    IN  IF others = {} THEN Null ELSE CHOOSE v \in others : TRUE

\* doc.time names no version the packument does not have.
TimeOfPublished(doc) == \A v \in Versions : doc.time[v] > 0 => doc.versions[v].present

\* C12 as claimed: the previous version a detection carries is the
\* next-most-recent published version distinct from latest, and null only on
\* a first publish; the line carries the literal script command.
C12_AsClaimed ==
    (/\ probe.outcome = "flagged"
     /\ Tagged(probe.fetch.doc)
     /\ TimeOfPublished(probe.fetch.doc))
        => /\ Len(probe.out) = 1
           /\ probe.out[1].version = probe.fetch.doc.distLatest
           /\ probe.out[1].previous = TaggedPrevious(probe.fetch.doc)
           /\ probe.out[1].postinstall =
                  TaggedLatestDoc(probe.fetch.doc).postinstall

\* C13 as claimed: dist-tags.latest is the latest selected whenever it names
\* a published version, and whatever is selected is a key of the version map.
C13_AsClaimed ==
    probe.outcome \notin {"none", "pending"} =>
        /\ Tagged(probe.fetch.doc) => probe.seen = probe.fetch.doc.distLatest
        /\ probe.seen # Null => probe.fetch.doc.versions[probe.seen].present

\* C14 as claimed: submitting a job whose key was submitted before is a
\* no-op, so the worker is invoked for at most one job per key.
C14_AsClaimed ==
    \A i, j \in 1..Len(handled) :
        i # j => handled[i].packageName # handled[j].packageName

\* C15 as claimed: a task whose packument fetch failed is not dropped: it
\* stays among the tasks, to be tried again.
C15_AsClaimed ==
    [][((running \ running' # {}) /\ lastJob'.outcome = "fetch-failed")
            => Tasks \subseteq Tasks'
      ]_vars

\* C16: a task whose fetch failed changes nothing of the poll loop (where it
\* is suspended, cursor, backoff delay, exit code) and nothing of the cache
\* or the flagged set; its slot is given back, the task waiting longest gets
\* it, and no other task is lost.  In the producer a row whose fetch or
\* submission failed is logged and the row loop goes on.
C16_JobErrorsContained ==
    [][/\ \A fn \in running \ running' :
            /\ pollerVars' = pollerVars
            /\ nextJobId' = nextJobId
            /\ Tasks' = Tasks \ {fn}
            /\ inFlight' = IF queue = <<>> THEN inFlight - 1 ELSE inFlight
            /\ queue # <<>> => Head(queue) \in running'
            /\ lastJob'.outcome = "fetch-failed" =>
                    <<lastSeenLatest, flagged, events>>' = <<lastSeenLatest, flagged, events>>
       /\ (InRowLoop /\ lastJob'.outcome \in {"fetch-failed", "add-failed"}) =>
            /\ pc' \in {"packument", "fetching", "idle"}
            /\ <<backoffMs, errStreak, exitCode, lastOk>>' = <<backoffMs, errStreak, exitCode, lastOk>>
            /\ submitted' = submitted
            /\ todo' = skipRows(Tail(todo))
      ]_vars

\* C16 witness: a task failed while every slot was taken, and the last task
\* of the run has its slot.
C16_Witness ==
    /\ lastJob.outcome = "fetch-failed"
    /\ inFlight = maxConcurrency
    /\ queue = <<>>
    /\ nextJobId > maxConcurrency + 1
    /\ pc = "fetching"

\* C17 as claimed: while the packument fetch of a row is outstanding run()
\* is not held up by it: the cursor is already past the row's batch.
C17_AsClaimed ==
    (running # {} \/ pc = "packument") => since = lastOk

\* C18: once the cursor is there the loop is never left, and after every
\* failed iteration the next request is issued.
C18_LoopNeverStops ==
    /\ [][pc # "init" => pc' \in {"fetching", "backoff", "idle"}]_vars
    /\ [](pc = "backoff" => <>(pc = "fetching"))

\* C18 witness: a request is out after failed iterations in a row.
C18_Witness ==
    /\ pc = "fetching"
    /\ errStreak >= 2
    /\ lastResp.kind \in {"transport", "http", "json"}

\* C19: a step leaves startup without a cursor only into the stopped state
\* with exit code 1; no request for changes was made and no task created by
\* then; nothing is done after it; and the exit code is set nowhere else.
C19_StartupFailureStops ==
    [][/\ (pc = "init" /\ since' = NoCursor) => pc' = "stopped"
       /\ pc' = "stopped" =>
            /\ pc = "init"
            /\ exitCode' = 1
            /\ since' = NoCursor
            /\ lastResp' = NoResp
            /\ nextJobId' = 1
            /\ Tasks' = {}
            /\ events' = <<>>
       /\ exitCode' # 0 => pc' = "stopped"
       /\ pc # "stopped"
      ]_vars

\* C19 witness: run() has stopped at startup.
C19_Witness ==
    /\ pc = "stopped"
    /\ exitCode = 1
    /\ since = NoCursor

\* The outcomes of a task that recorded its latest in lastSeenLatest.
Marking == {"no-script", "prev-has-script", "already-flagged", "flagged"}

C21_CursorForward ==
    [][/\ since' >= since
       /\ reqSince' >= reqSince
       /\ pc' = "fetching" => reqSince' = since'
       /\ nextJobId' > nextJobId =>
            /\ reqSince = since
            /\ since' > since
            /\ reqSince' > reqSince
      ]_vars

\* C21 witness: two batches in a row gave rise to tasks and the cursor is
\* at the end of the feed.
C21_Witness ==
    /\ lastResp.kind = "ok"
    /\ lastResp.rows = 1
    /\ ~lastResp.design
    /\ nextJobId >= 3
    /\ since = MaxSeq
    /\ reqSince = MaxSeq

\* C22: as claimed, the process exits on a stop only when no worker call is
\* still running: no job in flight is cut off by the stop.
C22_AsClaimed == exited => limitActive = {}

\* C23: as claimed, the producer leaves no version recorded as seen without
\* a job: whatever lastSeenLatest holds for a package was submitted to
\* packageQueue, or its submission is being awaited.
C23_AsClaimed ==
    \A n \in Names :
        lastSeenLatest[n] # Null =>
            \/ \E i \in 1..Len(submitted) :
                    /\ submitted[i].packageName = n
                    /\ submitted[i].version = lastSeenLatest[n]
            \/ /\ pc = "adding"
               /\ jobData.packageName = n
               /\ jobData.version = lastSeenLatest[n]

\* C24: as claimed, a failed iteration that follows a failed iteration
\* waits twice as long as that one did, up to the cap, whatever the two
\* failures were, and the delay goes back to initial only with an accepted
\* batch.
C24_AsClaimed ==
    [][/\ (pc = "fetching" /\ pc' = "backoff") =>
            wait'.ms = IF errStreak = 0 THEN InitialBackoffMs
                       ELSE Min(wait.ms * 2, BackoffCapMs)
       /\ (backoffMs' = InitialBackoffMs /\ backoffMs # InitialBackoffMs) =>
            lastResp'.kind = "ok"
      ]_vars

Queued == {queue[i] : i \in 1..Len(queue)}

\* C25: with every started task finishing, a task that waits in the queue is
\* started; a task is started once, out of the queue or as it is created,
\* and none comes back once it has left; a task waits only while every slot
\* is taken.
C25_QueueProgress ==
    /\ \A id \in 1..PoolJobs :
            (\E fn \in Queued : fn.id = id) ~> (\E fn \in running : fn.id = id)
    /\ [][/\ \A fn \in running' \ running :
                /\ fn \in Queued \/ fn.id >= nextJobId
                /\ fn \notin Queued'
          /\ \A fn \in Queued' \ Queued : fn.id >= nextJobId /\ fn \notin running
          /\ Len(queue') = Cardinality(Queued')
         ]_vars
    /\ [](queue # <<>> => inFlight = maxConcurrency)

\* C25 witness: every task the feed gave rise to was started, the last one
\* is running next to another, and a task has finished.
C25_Witness ==
    /\ queue = <<>>
    /\ nextJobId = PoolJobs + 1
    /\ \E fn \in running : fn.id = PoolJobs
    /\ Cardinality(running) = maxConcurrency
    /\ lastJob.outcome # "none"

Occurrences(seq, x) == Cardinality({i \in 1..Len(seq) : seq[i] = x})

\* C26: every job add() was called with is in exactly one place, once: still
\* in the queue, waiting in the limiter, or handed to the worker; the jobs
\* whose worker call is running were handed over; without a listener
\* everything added stays queued in order, and an add() with a listener
\* registered leaves the queue empty, the jobs of before process() included.
C26_Delivery ==
    /\ [](\A i \in 1..Len(added) :
            Occurrences(imq \o limitPending \o handled, added[i]) = 1)
    /\ [](Len(imq) + Len(limitPending) + Len(handled) = Len(added))
    /\ [](\A job \in limitActive : Occurrences(handled, job) = 1)
    /\ [](listeners = 0 => imq = added)
    /\ [][/\ (added' # added /\ listeners > 0) => imq' = <<>>
          /\ (added' # added /\ listeners > 0) =>
                Len(limitPending') + Len(handled') = Len(added')
          /\ \A i \in 1..Len(handled) : handled'[i] = handled[i]
         ]_vars

\* C26 witness: jobs were added before and after process(), a worker call
\* has settled, and every job was handed to the worker.
C26_Witness ==
    /\ listeners >= 1
    /\ Len(added) >= 3
    /\ Len(handled) = Len(added)
    /\ imq = <<>>
    /\ Cardinality(limitActive) < concurrency

\* C27: tasks start in the order of their dispatch: a task that starts has a
\* lower creation number than every task still waiting, and the queue holds
\* the waiting tasks in the order of their creation.
C27_FifoStart ==
    [][/\ \A fn \in running' \ running : \A g \in Queued' : fn.id < g.id
       /\ \A i, j \in 1..Len(queue') : i < j => queue'[i].id < queue'[j].id
       /\ \A g \in Queued' : g.id < nextJobId'
      ]_vars

\* C27 witness: a task has finished, the first task that had to wait is
\* running and the one dispatched after it still waits.
C27_Witness ==
    /\ lastJob.outcome # "none"
    /\ \E fn \in running : fn.id = maxConcurrency + 1
    /\ Len(queue) = 1
    /\ queue[1].id = maxConcurrency + 2

\* C28: flagged only grows, the overflow reset of lastSeenLatest included;
\* every FLAG line written is for a key that was not in flagged before and
\* is in it afterwards, so a key flagged before a reset is not flagged again
\* when it is evaluated after it.
C28_FlaggedKept ==
    [][/\ flagged \subseteq flagged'
       /\ Len(events') = Len(events) + Cardinality(flagged' \ flagged)
       /\ \A i \in (Len(events) + 1)..Len(events') :
            EventKey(events'[i]) \in flagged' \ flagged
       /\ (lastSeenLatest' = EmptyCache /\ lastSeenLatest # EmptyCache) =>
            flagged \subseteq flagged'
      ]_vars

\* C28 witness: a key is flagged and a later task, which flagged nothing,
\* set off the overflow reset.
C28_Witness ==
    /\ lastSeenLatest = EmptyCache
    /\ flagged # {}
    /\ Len(events) = Cardinality(flagged)
    /\ lastJob.outcome \in {"no-script", "prev-has-script"}

====
